---- MODULE Spec2Model ----
(***************************************************************************)
(* Model of smartasync.core.wrapper (src/src/smartasync/core.py): the      *)
(* bidirectional sync/async dispatch wrapper with its asymmetric           *)
(* `_cached_has_loop` cache, together with the asyncio collaborators it    *)
(* uses (get_running_loop, asyncio.run, asyncio.to_thread).                *)
(*                                                                         *)
(* Each thread executes _wrapper as a sequence of steps split at the       *)
(* accesses to the shared closure cell `_cached_has_loop`:                 *)
(*   Call      line 47 (read the cell) and, when it is False, line 51      *)
(*             (the thread-local probe get_running_loop)                   *)
(*   Mark      line 54 (write True to the cell)                            *)
(*   Dispatch* lines 60-87 (the match statement, one action per arm)       *)
(*   RunFinish the end of asyncio.run(coro) on line 68 and the except      *)
(*             clause of lines 69-75                                       *)
(*                                                                         *)
(* Spec is that model; FairSpec adds the progress assumptions; SyncSpec    *)
(* is the model of the second implementation, class SmartSync and the      *)
(* decorator smartsync of src/src/smartsync/core.py.                       *)
(* PairSpec makes every call and every reset on both implementations.      *)
(***************************************************************************)
EXTENDS Naturals, Sequences, FiniteSets

VARIABLES
    is_coro,          \* [unit -> BOOLEAN]  closure variable is_coro, line 36
    cached_has_loop,  \* [unit -> BOOLEAN]  closure cell _cached_has_loop, line 39
    running_loop,     \* [thread -> BOOLEAN] asyncio's per-thread running loop
    stack,            \* [thread -> Seq(frame)] the _wrapper activations of a thread
    handles,          \* [slot -> handle] awaitables returned by lines 83 and 87
    obs,              \* what the last step delivered to a caller (or NoObs);
                      \* its field `prior` is last_unscheduled before the step
    last_unscheduled, \* history: the unit of the latest call to return, if it
                      \* was dispatched with async_context = False and no other
                      \* call has returned, no handle resolved and no reset run
                      \* since; else "none"
    after_reset       \* [unit -> {"none","clean","marked"}] history: "none" until
                      \* reset_cache() of the unit runs and again once a call of
                      \* the unit starts; in between "clean", or "marked" when a
                      \* dispatch already in flight has executed line 54

\* src/src/smartsync/core.py
VARIABLES
    sync_mode,            \* [instance -> BOOLEAN]  SmartSync._sync_mode, line 68
    sync_cached_has_loop  \* [unit -> BOOLEAN]  closure cell _cached_has_loop of
                          \* smartsync's wrapper, line 116

vars == <<is_coro, cached_has_loop, running_loop, stack, handles, obs, last_unscheduled,
          after_reset, sync_mode, sync_cached_has_loop>>

----------------------------------------------------------------------------
(* Bounds and universes *)

MaxHandles == 1

\* the wrapped callables: "fetch" is declared `async def`, "add" is a plain `def`
Units == {"fetch", "add"}
Threads == {"t1", "t2"}
\* objects of a class derived from SmartSync
Instances == {"obj1", "obj2"}
Worker == "worker"          \* a thread of the default executor (asyncio.to_thread)
Slots == 1..MaxHandles

----------------------------------------------------------------------------
(* Values, failures and what a unit body can do *)

NestedLoopText == "cannot be called from a running event loop"

NoExc == [cls |-> "none", msg |-> <<>>, by |-> "none", cause |-> <<>>]

Exc(cls, msg, by) == [cls |-> cls, msg |-> msg, by |-> by, cause |-> <<>>]

NoOutcome == [type |-> "none", val |-> "none", exc |-> NoExc, handle |-> 0]

Return(v) == [type |-> "value", val |-> v, exc |-> NoExc, handle |-> 0]

Raise(e) == [type |-> "raise", val |-> "none", exc |-> e, handle |-> 0]

HandleResult(s) == [type |-> "handle", val |-> "none", exc |-> NoExc, handle |-> s]

\* The outcomes the body of a wrapped unit is driven to: a value, or a failure
\* of its own (one of them textually equal to asyncio.run's nested-loop error).
Outcomes ==
    { Return("v"),
      Raise(Exc("ValueError", <<"boom">>, "unit")),
      Raise(Exc("RuntimeError", <<"not ready">>, "unit")),
      Raise(Exc("RuntimeError", <<"asyncio.run() ", NestedLoopText>>, "unit")) }

\* `needle in str(e)` on a message kept as a sequence of text fragments
\* what ThreadPoolExecutor.submit raises after shutdown
ExecutorShutdown ==
    Exc("RuntimeError", <<"cannot schedule new futures after shutdown">>, "executor")

\* what method(*args, **kwargs) raises when the arguments do not fit the
\* signature of the method: no coroutine object is created
BindError ==
    Exc("TypeError", <<"missing required positional argument">>, "python")

Contains(msg, needle) == \E i \in 1..Len(msg) : msg[i] = needle

----------------------------------------------------------------------------
(* Pure parts of wrapper and _wrapper *)

\* line 36: asyncio.iscoroutinefunction(method)
IsCoroutineFunction(u) == u = "fetch"

\* Variants of ContextDetection with one plausible slip each
\* (used to show that the properties below depend on lines 47-58):
\* the except branch stores False (symmetric caching)
ContextDetection_CachesFalse(cached, has_loop) ==
    IF cached
    THEN [async_context |-> TRUE, probed |-> FALSE, write |-> FALSE, value |-> FALSE]
    ELSE IF has_loop
         THEN [async_context |-> TRUE, probed |-> TRUE, write |-> TRUE, value |-> TRUE]
         ELSE [async_context |-> FALSE, probed |-> TRUE, write |-> TRUE, value |-> FALSE]

\* the cell is set after every probe, whatever it found
ContextDetection_CachesAnyProbe(cached, has_loop) ==
    IF cached
    THEN [async_context |-> TRUE, probed |-> FALSE, write |-> FALSE, value |-> FALSE]
    ELSE IF has_loop
         THEN [async_context |-> TRUE, probed |-> TRUE, write |-> TRUE, value |-> TRUE]
         ELSE [async_context |-> FALSE, probed |-> TRUE, write |-> TRUE, value |-> TRUE]

\* the cell is read but the probe is made all the same
ContextDetection_IgnoresCache(cached, has_loop) ==
    IF has_loop
    THEN [async_context |-> TRUE, probed |-> TRUE, write |-> TRUE, value |-> TRUE]
    ELSE [async_context |-> FALSE, probed |-> TRUE, write |-> FALSE, value |-> FALSE]

\* a cached True is used only as a hint: the live probe decides
ContextDetection_LiveOnly(cached, has_loop) ==
    IF cached
    THEN [async_context |-> has_loop, probed |-> FALSE, write |-> FALSE, value |-> FALSE]
    ELSE IF has_loop
         THEN [async_context |-> TRUE, probed |-> TRUE, write |-> TRUE, value |-> TRUE]
         ELSE [async_context |-> FALSE, probed |-> TRUE, write |-> FALSE, value |-> FALSE]

\* line 53 missing: the first positive probe is cached but not used
ContextDetection_LateSwitch(cached, has_loop) ==
    IF cached
    THEN [async_context |-> TRUE, probed |-> FALSE, write |-> FALSE, value |-> FALSE]
    ELSE IF has_loop
         THEN [async_context |-> FALSE, probed |-> TRUE, write |-> TRUE, value |-> TRUE]
         ELSE [async_context |-> FALSE, probed |-> TRUE, write |-> FALSE, value |-> FALSE]

\* lines 47-58: context detection with asymmetric caching.
\*   async_context  the local of that name
\*   probed         asyncio.get_running_loop() was called (line 51)
\*   write, value   the branch assigns `value` to _cached_has_loop (line 54);
\*                  value is irrelevant in a branch that does not write
ContextDetection(cached, has_loop) ==
    IF cached
    THEN [async_context |-> TRUE, probed |-> FALSE, write |-> FALSE, value |-> FALSE]
    ELSE IF has_loop
         THEN [async_context |-> TRUE, probed |-> TRUE, write |-> TRUE, value |-> TRUE]
         ELSE [async_context |-> FALSE, probed |-> TRUE, write |-> FALSE, value |-> FALSE]

\* Variants of Strategy with one plausible slip each:
\* the two sync-method arms exchanged
Strategy_SyncArmsSwapped(async_context, async_method) ==
    CASE async_context = FALSE /\ async_method = TRUE  -> "SyncBridge"
      [] async_context = FALSE /\ async_method = FALSE -> "ThreadOffload"
      [] async_context = TRUE  /\ async_method = TRUE  -> "PassThrough"
      [] async_context = TRUE  /\ async_method = FALSE -> "Direct"

\* the coroutine is returned without asyncio.run in sync context
Strategy_NoRun(async_context, async_method) ==
    CASE async_method = TRUE                            -> "PassThrough"
      [] async_context = FALSE /\ async_method = FALSE -> "Direct"
      [] async_context = TRUE  /\ async_method = FALSE -> "ThreadOffload"

\* asyncio.run is used for a coroutine function in every context
Strategy_AlwaysRun(async_context, async_method) ==
    CASE async_method = TRUE                            -> "SyncBridge"
      [] async_context = FALSE /\ async_method = FALSE -> "Direct"
      [] async_context = TRUE  /\ async_method = FALSE -> "ThreadOffload"

\* a sync method is called directly in every context
Strategy_NoOffload(async_context, async_method) ==
    CASE async_context = FALSE /\ async_method = TRUE  -> "SyncBridge"
      [] async_method = FALSE                           -> "Direct"
      [] async_context = TRUE  /\ async_method = TRUE  -> "PassThrough"

\* lines 63-87: the match statement; the first matching case is taken
Strategy(async_context, async_method) ==
    CASE async_context = FALSE /\ async_method = TRUE  -> "SyncBridge"
      [] async_context = FALSE /\ async_method = FALSE -> "Direct"
      [] async_context = TRUE  /\ async_method = TRUE  -> "PassThrough"
      [] async_context = TRUE  /\ async_method = FALSE -> "ThreadOffload"

\* lines 71-74: the error the wrapper raises in place of the caught one
ConflictError(u, e) ==
    [cls |-> "RuntimeError",
     msg |-> <<"Cannot call ", u, "() synchronously from within an async context. Use 'await ",
               u, "()' instead.">>,
     by |-> "wrapper",
     cause |-> e.msg]

\* lines 67-75: what the caller gets once asyncio.run(coro) ended with `out`
SyncBridgeResult(u, out) ==
    IF out.type = "raise" /\ out.exc.cls = "RuntimeError"
    THEN IF Contains(out.exc.msg, NestedLoopText)
         THEN Raise(ConflictError(u, out.exc))
         ELSE out
    ELSE out

----------------------------------------------------------------------------
(* State helpers *)

NoHandle == [unit |-> "none", owner |-> "none", kind |-> "none", state |-> "free"]

NoObs ==
    [kind |-> "none", unit |-> "none", thread |-> "none", cached |-> FALSE,
     probed |-> FALSE, had_loop |-> FALSE, async_context |-> FALSE,
     async_method |-> FALSE, strategy |-> "none", body |-> NoOutcome,
     result |-> NoOutcome, ran_on |-> "none", prior |-> "none",
     runs |-> 0, slot |-> 0]

Top(t) == stack[t][Len(stack[t])]

Pop(t) == [stack EXCEPT ![t] = SubSeq(@, 1, Len(@) - 1)]

SetTop(t, fr) == [stack EXCEPT ![t][Len(stack[t])] = fr]

\* the thread is executing application code that may call a wrapped unit:
\* plain code or a task of its loop (empty stack), or the body of a unit
\* that asyncio.run is driving (line 68)
AtCallSite(t) == IF stack[t] = <<>> THEN TRUE ELSE Top(t).pc = "run"

FreeSlots == {s \in Slots : handles[s].state = "free"}

CallEvent(t, fr, strategy, body, result, ran_on) ==
    [kind |-> "call", unit |-> fr.unit, thread |-> t, cached |-> fr.cached,
     probed |-> fr.probed, had_loop |-> fr.had_loop,
     async_context |-> fr.async_context, async_method |-> is_coro[fr.unit],
     strategy |-> strategy, body |-> body, result |-> result, ran_on |-> ran_on,
     prior |-> last_unscheduled, runs |-> fr.runs,
     slot |-> IF result.type = "handle" THEN result.handle ELSE 0]

\* the awaitable in slot s has been driven: the unit's body ran once, on
\* ran_on, and the awaiting task of the owner got its outcome
ResolveEvent(s, out, ran_on) ==
    [NoObs EXCEPT !.kind = "resolve", !.unit = handles[s].unit,
                  !.thread = handles[s].owner,
                  !.async_context = TRUE, !.async_method = is_coro[handles[s].unit],
                  !.strategy = handles[s].kind, !.body = out, !.result = out,
                  !.ran_on = ran_on, !.runs = 1, !.slot = s]

NoteCompleted(fr) == IF fr.async_context THEN "none" ELSE fr.unit

----------------------------------------------------------------------------
(* Initial state: wrapper(method) for every unit, lines 35-39 *)

Init ==
    /\ is_coro = [u \in Units |-> IsCoroutineFunction(u)]
    /\ cached_has_loop = [u \in Units |-> FALSE]
    /\ running_loop = [t \in Threads |-> FALSE]
    /\ stack = [t \in Threads |-> <<>>]
    /\ handles = [s \in Slots |-> NoHandle]
    /\ obs = NoObs
    /\ last_unscheduled = "none"
    /\ after_reset = [u \in Units |-> "none"]
    /\ sync_mode = [i \in Instances |-> FALSE]
    /\ sync_cached_has_loop = [u \in Units |-> FALSE]

----------------------------------------------------------------------------
(* _wrapper, step by step *)

\* a variant in which the probe does not see the loop of asyncio.run
Call_PrivateLoopUnseen(t, u) ==
    /\ AtCallSite(t)
    /\ LET seen == running_loop[t] /\ stack[t] = <<>>
           cd == ContextDetection(cached_has_loop[u], seen)
           fr == [unit |-> u,
                  pc |-> IF cd.write THEN "mark" ELSE "dispatch",
                  cached |-> cached_has_loop[u],
                  probed |-> cd.probed,
                  had_loop |-> seen,
                  async_context |-> cd.async_context,
                  store |-> cd.value,
                  runs |-> 0]
       IN stack' = [stack EXCEPT ![t] = Append(@, fr)]
    /\ after_reset' = [after_reset EXCEPT ![u] = "none"]
    /\ obs' = NoObs
    /\ UNCHANGED <<sync_mode, sync_cached_has_loop, is_coro, cached_has_loop, running_loop, handles, last_unscheduled>>

\* lines 42-58 up to the write of line 54
Call(t, u) ==
    /\ AtCallSite(t)
    /\ LET cd == ContextDetection(cached_has_loop[u], running_loop[t])
           fr == [unit |-> u,
                  pc |-> IF cd.write THEN "mark" ELSE "dispatch",
                  cached |-> cached_has_loop[u],
                  probed |-> cd.probed,
                  had_loop |-> running_loop[t],
                  async_context |-> cd.async_context,
                  store |-> cd.value,
                  runs |-> 0]
       IN stack' = [stack EXCEPT ![t] = Append(@, fr)]
    /\ after_reset' = [after_reset EXCEPT ![u] = "none"]
    /\ obs' = NoObs
    /\ UNCHANGED <<sync_mode, sync_cached_has_loop, is_coro, cached_has_loop, running_loop, handles, last_unscheduled>>

\* a variant in which line 54 stores back the value that line 47 read
Mark_StoresWhatWasRead(t) ==
    /\ stack[t] # <<>>
    /\ Top(t).pc = "mark"
    /\ cached_has_loop' = [cached_has_loop EXCEPT ![Top(t).unit] = Top(t).cached]
    /\ stack' = SetTop(t, [Top(t) EXCEPT !.pc = "dispatch"])
    /\ after_reset' = [after_reset EXCEPT ![Top(t).unit] =
                           IF @ = "clean" THEN "marked" ELSE @]
    /\ obs' = NoObs
    /\ UNCHANGED <<sync_mode, sync_cached_has_loop, is_coro, running_loop, handles, last_unscheduled>>

\* line 54
Mark(t) ==
    /\ stack[t] # <<>>
    /\ Top(t).pc = "mark"
    /\ cached_has_loop' = [cached_has_loop EXCEPT ![Top(t).unit] = Top(t).store]
    /\ stack' = SetTop(t, [Top(t) EXCEPT !.pc = "dispatch"])
    /\ after_reset' = [after_reset EXCEPT ![Top(t).unit] =
                           IF @ = "clean" THEN "marked" ELSE @]
    /\ obs' = NoObs
    /\ UNCHANGED <<sync_mode, sync_cached_has_loop, is_coro, running_loop, handles, last_unscheduled>>

\* a variant that looks at the cell again when it dispatches
Dispatching_RereadsCell(t, strategy) ==
    /\ stack[t] # <<>>
    /\ Top(t).pc = "dispatch"
    /\ Strategy(Top(t).async_context \/ cached_has_loop[Top(t).unit],
                is_coro[Top(t).unit]) = strategy

Dispatching(t, strategy) ==
    /\ stack[t] # <<>>
    /\ Top(t).pc = "dispatch"
    /\ Strategy(Top(t).async_context, is_coro[Top(t).unit]) = strategy

\* lines 64-68: asyncio.run(coro) refuses a thread that has a running loop,
\* otherwise installs a new loop and starts driving the coroutine
DispatchSyncBridge(t) ==
    /\ Dispatching(t, "SyncBridge")
    /\ LET fr == Top(t)
           refused == Raise(Exc("RuntimeError",
                                <<"asyncio.run() ", NestedLoopText>>, "asyncio"))
       IN IF running_loop[t]
          THEN /\ obs' = CallEvent(t, fr, "SyncBridge", NoOutcome,
                                   SyncBridgeResult(fr.unit, refused), "none")
               /\ stack' = Pop(t)
               /\ last_unscheduled' = NoteCompleted(fr)
               /\ UNCHANGED running_loop
          ELSE /\ running_loop' = [running_loop EXCEPT ![t] = TRUE]
               /\ stack' = SetTop(t, [fr EXCEPT !.pc = "run", !.runs = @ + 1])
               /\ obs' = NoObs
               /\ UNCHANGED last_unscheduled
    /\ UNCHANGED <<sync_mode, sync_cached_has_loop, is_coro, cached_has_loop, handles, after_reset>>

RunFinish_LoopLeftRunning(t) ==
    /\ stack[t] # <<>>
    /\ Top(t).pc = "run"
    /\ \A s \in Slots : ~(handles[s].owner = t /\ handles[s].state = "submitted")
    /\ \E out \in Outcomes :
          obs' = CallEvent(t, Top(t), "SyncBridge", out,
                           SyncBridgeResult(Top(t).unit, out), t)
    /\ stack' = Pop(t)
    /\ last_unscheduled' = NoteCompleted(Top(t))
    /\ UNCHANGED <<sync_mode, sync_cached_has_loop, is_coro, cached_has_loop, running_loop, handles, after_reset>>

\* line 68 returning or raising, then lines 69-75
RunFinish(t) ==
    /\ stack[t] # <<>>
    /\ Top(t).pc = "run"
    /\ \A s \in Slots : ~(handles[s].owner = t /\ handles[s].state = "submitted")
    /\ \E out \in Outcomes :
          obs' = CallEvent(t, Top(t), "SyncBridge", out,
                           SyncBridgeResult(Top(t).unit, out), t)
    /\ running_loop' = [running_loop EXCEPT ![t] = FALSE]
    /\ stack' = Pop(t)
    /\ last_unscheduled' = NoteCompleted(Top(t))
    /\ UNCHANGED <<sync_mode, sync_cached_has_loop, is_coro, cached_has_loop, handles, after_reset>>

\* a variant that calls the method a second time when it raised
DispatchDirect_RetriesFailure(t) ==
    /\ Dispatching(t, "Direct")
    /\ \E out \in Outcomes :
          IF out.type = "raise"
          THEN \E again \in Outcomes :
                  obs' = CallEvent(t, [Top(t) EXCEPT !.runs = @ + 2], "Direct",
                                   again, again, t)
          ELSE obs' = CallEvent(t, [Top(t) EXCEPT !.runs = @ + 1], "Direct", out, out, t)
    /\ stack' = Pop(t)
    /\ last_unscheduled' = NoteCompleted(Top(t))
    /\ UNCHANGED <<sync_mode, sync_cached_has_loop, is_coro, cached_has_loop, running_loop, handles, after_reset>>

\* lines 77-79
DispatchDirect(t) ==
    /\ Dispatching(t, "Direct")
    /\ \E out \in Outcomes :
          obs' = CallEvent(t, [Top(t) EXCEPT !.runs = @ + 1], "Direct", out, out, t)
    /\ stack' = Pop(t)
    /\ last_unscheduled' = NoteCompleted(Top(t))
    /\ UNCHANGED <<sync_mode, sync_cached_has_loop, is_coro, cached_has_loop, running_loop, handles, after_reset>>

\* lines 81-83 (kind "PassThrough") and 85-87 (kind "ThreadOffload"):
\* an awaitable is created and returned, nothing is run
ReturnHandle(t, kind) ==
    /\ FreeSlots # {}
    /\ LET s == CHOOSE x \in FreeSlots : \A y \in FreeSlots : x <= y
       IN /\ handles' = [handles EXCEPT ![s] =
                            [unit |-> Top(t).unit, owner |-> t, kind |-> kind,
                             state |-> "pending"]]
          /\ obs' = CallEvent(t, Top(t), kind, NoOutcome, HandleResult(s), "none")
    /\ stack' = Pop(t)
    /\ last_unscheduled' = NoteCompleted(Top(t))
    /\ UNCHANGED <<sync_mode, sync_cached_has_loop, is_coro, cached_has_loop, running_loop, after_reset>>

DispatchPassThrough(t) ==
    /\ Dispatching(t, "PassThrough")
    /\ ReturnHandle(t, "PassThrough")

\* a variant that waits on the calling thread for the worker's result
DispatchOffload_WaitsForWorker(t) ==
    /\ Dispatching(t, "ThreadOffload")
    /\ \E out \in Outcomes :
          obs' = CallEvent(t, [Top(t) EXCEPT !.runs = @ + 1], "ThreadOffload",
                           out, out, Worker)
    /\ stack' = Pop(t)
    /\ last_unscheduled' = NoteCompleted(Top(t))
    /\ UNCHANGED <<sync_mode, sync_cached_has_loop, is_coro, cached_has_loop, running_loop, handles, after_reset>>

DispatchOffload(t) ==
    /\ Dispatching(t, "ThreadOffload")
    /\ ReturnHandle(t, "ThreadOffload")

\* a variant in which reset_cache() also forgets what the unit is
Reset_ForgetsKind(u) ==
    /\ \E t \in Threads : AtCallSite(t)
    /\ cached_has_loop' = [cached_has_loop EXCEPT ![u] = FALSE]
    /\ is_coro' = [is_coro EXCEPT ![u] = FALSE]
    /\ obs' = [NoObs EXCEPT !.kind = "reset", !.unit = u]
    /\ after_reset' = [after_reset EXCEPT ![u] = "clean"]
    /\ last_unscheduled' = "none"
    /\ UNCHANGED <<sync_mode, sync_cached_has_loop, running_loop, stack, handles>>

\* lines 90-92
Reset(u) ==
    /\ \E t \in Threads : AtCallSite(t)
    /\ cached_has_loop' = [cached_has_loop EXCEPT ![u] = FALSE]
    /\ obs' = [NoObs EXCEPT !.kind = "reset", !.unit = u]
    /\ after_reset' = [after_reset EXCEPT ![u] = "clean"]
    /\ last_unscheduled' = "none"
    /\ UNCHANGED <<sync_mode, sync_cached_has_loop, is_coro, running_loop, stack, handles>>

----------------------------------------------------------------------------
(* The callers' side: schedulers, awaiting, the worker pool *)

\* the application enters / leaves its own event loop on a thread
StartLoop(t) ==
    /\ stack[t] = <<>>
    /\ ~running_loop[t]
    /\ running_loop' = [running_loop EXCEPT ![t] = TRUE]
    /\ obs' = NoObs
    /\ UNCHANGED <<sync_mode, sync_cached_has_loop, is_coro, cached_has_loop, stack, handles, last_unscheduled, after_reset>>

StopLoop(t) ==
    /\ stack[t] = <<>>
    /\ running_loop[t]
    /\ \A s \in Slots : ~(handles[s].owner = t /\ handles[s].state = "submitted")
    /\ running_loop' = [running_loop EXCEPT ![t] = FALSE]
    /\ obs' = NoObs
    /\ UNCHANGED <<sync_mode, sync_cached_has_loop, is_coro, cached_has_loop, stack, handles, last_unscheduled, after_reset>>

CanAwait(t, s) ==
    /\ handles[s].state = "pending"
    /\ handles[s].owner = t
    /\ running_loop[t]
    /\ AtCallSite(t)

\* `await` of the coroutine returned by line 83: the loop of the awaiting
\* thread drives the unit's body
AwaitCoroutine(t, s) ==
    /\ CanAwait(t, s)
    /\ handles[s].kind = "PassThrough"
    /\ \E out \in Outcomes : obs' = ResolveEvent(s, out, t)
    /\ handles' = [handles EXCEPT ![s] = NoHandle]
    /\ last_unscheduled' = "none"
    /\ UNCHANGED <<sync_mode, sync_cached_has_loop, is_coro, cached_has_loop, running_loop, stack, after_reset>>

\* `await` of the coroutine returned by line 87: to_thread submits the call
\* to the executor and suspends the awaiting task
AwaitOffload(t, s) ==
    /\ CanAwait(t, s)
    /\ handles[s].kind = "ThreadOffload"
    /\ handles' = [handles EXCEPT ![s].state = "submitted"]
    /\ obs' = NoObs
    /\ UNCHANGED <<sync_mode, sync_cached_has_loop, is_coro, cached_has_loop, running_loop, stack, last_unscheduled, after_reset>>

AwaitOffloadRejected_RunsOnLoopThread(t, s) ==
    /\ CanAwait(t, s)
    /\ handles[s].kind = "ThreadOffload"
    /\ \E out \in Outcomes : obs' = ResolveEvent(s, out, t)
    /\ handles' = [handles EXCEPT ![s] = NoHandle]
    /\ last_unscheduled' = "none"
    /\ UNCHANGED <<sync_mode, sync_cached_has_loop, is_coro, cached_has_loop, running_loop, stack, after_reset>>

\* `await` of the coroutine returned by line 87 when the executor does not
\* take the call (it has been shut down): run_in_executor raises inside the
\* to_thread coroutine, the awaiting task gets that RuntimeError and the
\* callable is never called
AwaitOffloadRejected(t, s) ==
    /\ CanAwait(t, s)
    /\ handles[s].kind = "ThreadOffload"
    /\ obs' = [NoObs EXCEPT !.kind = "rejected", !.unit = handles[s].unit,
                            !.thread = t, !.async_context = TRUE,
                            !.strategy = "ThreadOffload",
                            !.result = Raise(ExecutorShutdown), !.slot = s]
    /\ handles' = [handles EXCEPT ![s] = NoHandle]
    /\ last_unscheduled' = "none"
    /\ UNCHANGED <<sync_mode, sync_cached_has_loop, is_coro, cached_has_loop, running_loop, stack, after_reset>>

\* a worker thread runs the callable and resolves the awaiting task
WorkerRun(s) ==
    /\ handles[s].state = "submitted"
    /\ \E out \in Outcomes : obs' = ResolveEvent(s, out, Worker)
    /\ handles' = [handles EXCEPT ![s] = NoHandle]
    /\ last_unscheduled' = "none"
    /\ UNCHANGED <<sync_mode, sync_cached_has_loop, is_coro, cached_has_loop, running_loop, stack, after_reset>>

\* the caller discards an awaitable without ever awaiting it
Drop(s) ==
    /\ handles[s].state = "pending"
    /\ handles' = [handles EXCEPT ![s] = NoHandle]
    /\ obs' = NoObs
    /\ UNCHANGED <<sync_mode, sync_cached_has_loop, is_coro, cached_has_loop, running_loop, stack, last_unscheduled, after_reset>>

----------------------------------------------------------------------------

Next ==
    \/ \E t \in Threads, u \in Units : Call(t, u)
    \/ \E t \in Threads : Mark(t)
    \/ \E t \in Threads : DispatchSyncBridge(t)
    \/ \E t \in Threads : RunFinish(t)
    \/ \E t \in Threads : DispatchDirect(t)
    \/ \E t \in Threads : DispatchPassThrough(t)
    \/ \E t \in Threads : DispatchOffload(t)
    \/ \E u \in Units : Reset(u)
    \/ \E t \in Threads : StartLoop(t)
    \/ \E t \in Threads : StopLoop(t)
    \/ \E t \in Threads, s \in Slots : AwaitCoroutine(t, s)
    \/ \E t \in Threads, s \in Slots : AwaitOffload(t, s)
    \/ \E t \in Threads, s \in Slots : AwaitOffloadRejected(t, s)
    \/ \E s \in Slots : WorkerRun(s)
    \/ \E s \in Slots : Drop(s)

Spec == Init /\ [][Next]_vars

----------------------------------------------------------------------------
(* src/src/smartsync/core.py: class SmartSync and the decorator smartsync.  *)
(* A coroutine function is replaced by `wrapper` (lines 118-145), a plain   *)
(* function is returned as it is (lines 155-157).  The steps of `wrapper`   *)
(* are split at the accesses to its closure cell:                           *)
(*   SyncCall       line 122 (the coroutine object is created), line 125    *)
(*                  (read the cell), line 130 (the probe) and, without a    *)
(*                  loop, the start of asyncio.run(coro) on line 138        *)
(*   SyncMark       line 131 (write True to the cell)                       *)
(*   SyncReturn     lines 126 and 132 (return coro)                         *)
(*   SyncRunFinish  the end of asyncio.run(coro) and lines 139-145          *)

\* lines 125-135 of smartsync: the same record as ContextDetection
SyncContextDetection(cached, has_loop) ==
    IF cached
    THEN [async_context |-> TRUE, probed |-> FALSE, write |-> FALSE, value |-> FALSE]
    ELSE IF has_loop
         THEN [async_context |-> TRUE, probed |-> TRUE, write |-> TRUE, value |-> TRUE]
         ELSE [async_context |-> FALSE, probed |-> TRUE, write |-> FALSE, value |-> FALSE]

\* lines 141-144 of smartsync
SyncConflictError(u, e) ==
    [cls |-> "RuntimeError",
     msg |-> <<"Cannot call ", u, "() synchronously from within an async context. Use 'await ",
               u, "()' instead.">>,
     by |-> "wrapper",
     cause |-> e.msg]

\* a variant without the except clause of lines 139-145
SyncRunResult_NoRewrite(u, out) == out

\* lines 137-145 of smartsync: what the caller gets when asyncio.run(coro)
\* ended with `out`
SyncRunResult(u, out) ==
    IF out.type = "raise" /\ out.exc.cls = "RuntimeError"
    THEN IF Contains(out.exc.msg, NestedLoopText)
         THEN Raise(SyncConflictError(u, out.exc))
         ELSE out
    ELSE out

\* a call of method fr.unit on object fr.inst has returned or raised
SyncCallEvent(t, fr, strategy, body, result, ran_on) ==
    [kind |-> "call", unit |-> fr.unit, thread |-> t, cached |-> fr.cached,
     probed |-> fr.probed, had_loop |-> fr.had_loop,
     async_context |-> fr.async_context, async_method |-> is_coro[fr.unit],
     strategy |-> strategy, body |-> body, result |-> result, ran_on |-> ran_on,
     prior |-> "none", runs |-> fr.runs,
     slot |-> IF result.type = "handle" THEN result.handle ELSE 0,
     inst |-> fr.inst, sync_mode |-> sync_mode[fr.inst]]

\* the two classes of the tests: one `async def` and one plain `def` method
\* (SimpleManager), or two `async def` methods (ManagerWithSlots)
SyncClasses == {[u \in Units |-> IsCoroutineFunction(u)], [u \in Units |-> TRUE]}

\* obj1 was built with _sync=True, obj2 with the default _sync=False; the
\* decorator has been applied to both methods of the class
SyncInit ==
    /\ is_coro \in SyncClasses
    /\ cached_has_loop = [u \in Units |-> FALSE]
    /\ running_loop = [t \in Threads |-> FALSE]
    /\ stack = [t \in Threads |-> <<>>]
    /\ handles = [s \in Slots |-> NoHandle]
    /\ obs = NoObs
    /\ last_unscheduled = "none"
    /\ after_reset = [u \in Units |-> "none"]
    /\ sync_mode = [i \in Instances |-> i = "obj1"]
    /\ sync_cached_has_loop = [u \in Units |-> FALSE]

\* a variant in which the latch is seen only through the first object
SyncCall_PerInstance(t, i, u) ==
    /\ AtCallSite(t)
    /\ is_coro[u]
    /\ LET seen == sync_cached_has_loop[u] /\ i = "obj1"
           cd == SyncContextDetection(seen, running_loop[t])
           fr == [unit |-> u,
                  inst |-> i,
                  pc |-> IF cd.write THEN "mark"
                         ELSE IF cd.async_context THEN "return" ELSE "run",
                  cached |-> seen,
                  probed |-> cd.probed,
                  had_loop |-> running_loop[t],
                  async_context |-> cd.async_context,
                  store |-> cd.value,
                  runs |-> IF cd.async_context THEN 0 ELSE 1]
       IN /\ stack' = [stack EXCEPT ![t] = Append(@, fr)]
          /\ running_loop' = [running_loop EXCEPT ![t] = IF cd.async_context THEN @ ELSE TRUE]
    /\ obs' = NoObs
    /\ UNCHANGED <<sync_mode, sync_cached_has_loop, is_coro, cached_has_loop, handles,
                   last_unscheduled, after_reset>>

\* lines 119-130 and, without a running loop, the start of line 138
SyncCall(t, i, u) ==
    /\ AtCallSite(t)
    /\ is_coro[u]
    /\ LET cd == SyncContextDetection(sync_cached_has_loop[u], running_loop[t])
           fr == [unit |-> u,
                  inst |-> i,
                  pc |-> IF cd.write THEN "mark"
                         ELSE IF cd.async_context THEN "return" ELSE "run",
                  cached |-> sync_cached_has_loop[u],
                  probed |-> cd.probed,
                  had_loop |-> running_loop[t],
                  async_context |-> cd.async_context,
                  store |-> cd.value,
                  runs |-> IF cd.async_context THEN 0 ELSE 1]
       IN /\ stack' = [stack EXCEPT ![t] = Append(@, fr)]
          /\ running_loop' = [running_loop EXCEPT ![t] = IF cd.async_context THEN @ ELSE TRUE]
    /\ obs' = NoObs
    /\ UNCHANGED <<sync_mode, sync_cached_has_loop, is_coro, cached_has_loop, handles,
                   last_unscheduled, after_reset>>

\* line 131
SyncMark(t) ==
    /\ stack[t] # <<>>
    /\ Top(t).pc = "mark"
    /\ sync_cached_has_loop' = [sync_cached_has_loop EXCEPT ![Top(t).unit] = Top(t).store]
    /\ stack' = SetTop(t, [Top(t) EXCEPT !.pc = "return"])
    /\ obs' = NoObs
    /\ UNCHANGED <<sync_mode, is_coro, cached_has_loop, running_loop, handles,
                   last_unscheduled, after_reset>>

\* lines 126 and 132: the coroutine object is returned, nothing has run
SyncReturn(t) ==
    /\ stack[t] # <<>>
    /\ Top(t).pc = "return"
    /\ FreeSlots # {}
    /\ LET s == CHOOSE x \in FreeSlots : \A y \in FreeSlots : x <= y
       IN /\ handles' = [handles EXCEPT ![s] =
                            [unit |-> Top(t).unit, owner |-> t, kind |-> "PassThrough",
                             state |-> "pending"]]
          /\ obs' = SyncCallEvent(t, Top(t), "PassThrough", NoOutcome,
                                  HandleResult(s), "none")
    /\ stack' = Pop(t)
    /\ UNCHANGED <<sync_mode, sync_cached_has_loop, is_coro, cached_has_loop,
                   running_loop, last_unscheduled, after_reset>>

\* line 138 returning or raising, then lines 139-145
SyncRunFinish(t) ==
    /\ stack[t] # <<>>
    /\ Top(t).pc = "run"
    /\ \E out \in Outcomes :
          obs' = SyncCallEvent(t, Top(t), "SyncBridge", out,
                               SyncRunResult(Top(t).unit, out), t)
    /\ running_loop' = [running_loop EXCEPT ![t] = FALSE]
    /\ stack' = Pop(t)
    /\ UNCHANGED <<sync_mode, sync_cached_has_loop, is_coro, cached_has_loop, handles,
                   last_unscheduled, after_reset>>

\* a variant in which a plain method is handed to a worker thread when a
\* loop is running, as smartasync does
SyncPlainCall_Offloads(t, i, u) ==
    /\ AtCallSite(t)
    /\ ~is_coro[u]
    /\ LET fr == [unit |-> u, inst |-> i, cached |-> FALSE, probed |-> TRUE,
                  had_loop |-> running_loop[t], async_context |-> running_loop[t],
                  runs |-> IF running_loop[t] THEN 0 ELSE 1]
       IN IF running_loop[t]
          THEN /\ FreeSlots # {}
               /\ LET s == CHOOSE x \in FreeSlots : \A y \in FreeSlots : x <= y
                  IN /\ handles' = [handles EXCEPT ![s] =
                                       [unit |-> u, owner |-> t, kind |-> "ThreadOffload",
                                        state |-> "pending"]]
                     /\ obs' = SyncCallEvent(t, fr, "ThreadOffload", NoOutcome,
                                             HandleResult(s), "none")
          ELSE /\ \E out \in Outcomes :
                     obs' = SyncCallEvent(t, fr, "Direct", out, out, t)
               /\ UNCHANGED handles
    /\ UNCHANGED <<sync_mode, sync_cached_has_loop, is_coro, cached_has_loop,
                   running_loop, stack, last_unscheduled, after_reset>>

\* lines 155-157: the decorator returned the plain function itself, so a call
\* of it is an ordinary call: no cell is read, no probe is made, the body
\* runs on the calling thread
SyncPlainCall(t, i, u) ==
    /\ AtCallSite(t)
    /\ ~is_coro[u]
    /\ LET fr == [unit |-> u, inst |-> i, cached |-> FALSE, probed |-> FALSE,
                  had_loop |-> running_loop[t], async_context |-> FALSE,
                  runs |-> 1]
       IN \E out \in Outcomes :
             obs' = SyncCallEvent(t, fr, "Direct", out, out, t)
    /\ UNCHANGED <<sync_mode, sync_cached_has_loop, is_coro, cached_has_loop,
                   running_loop, stack, handles, last_unscheduled, after_reset>>

\* lines 148-152: only the wrapper of a coroutine function has the hook
SyncReset(u) ==
    /\ is_coro[u]
    /\ \E t \in Threads : AtCallSite(t)
    /\ sync_cached_has_loop' = [sync_cached_has_loop EXCEPT ![u] = FALSE]
    /\ obs' = [NoObs EXCEPT !.kind = "reset", !.unit = u]
    /\ UNCHANGED <<sync_mode, is_coro, cached_has_loop, running_loop, stack, handles,
                   last_unscheduled, after_reset>>

SyncNext ==
    \/ \E t \in Threads, i \in Instances, u \in Units : SyncCall(t, i, u)
    \/ \E t \in Threads : SyncMark(t)
    \/ \E t \in Threads : SyncReturn(t)
    \/ \E t \in Threads : SyncRunFinish(t)
    \/ \E t \in Threads, i \in Instances, u \in Units : SyncPlainCall(t, i, u)
    \/ \E u \in Units : SyncReset(u)
    \/ \E t \in Threads : StartLoop(t)
    \/ \E t \in Threads : StopLoop(t)
    \/ \E t \in Threads, s \in Slots : AwaitCoroutine(t, s)
    \/ \E s \in Slots : Drop(s)

SyncSpec == SyncInit /\ [][SyncNext]_vars

----------------------------------------------------------------------------
(* The two implementations side by side.  The same coroutine methods are    *)
(* decorated once with smartasync (cell cached_has_loop) and once with      *)
(* smartsync (cell sync_cached_has_loop); every call and every reset is     *)
(* made on both, one call after the other, and the unit behaves the same    *)
(* way (`out`) under both.                                                  *)

\* a coroutine object was returned to the caller (lines 83 / 126, 132); the
\* two wrappers return two objects, which are not tracked in `handles`
CoroutineReturned == HandleResult(0)

\* smartasync _wrapper, lines 46-87, for a coroutine function: the cell after
\* the call and what the caller gets.  method(*args) is called in the arm
\* (lines 66, 83), after line 54.
AsyncWrapperCall(u, cached, has_loop, binds, out) ==
    LET cd == ContextDetection(cached, has_loop)
        strategy == Strategy(cd.async_context, TRUE)
    IN [cell |-> IF cd.write THEN cd.value ELSE cached,
        result |-> IF ~binds THEN Raise(BindError)
                   ELSE IF strategy = "SyncBridge" THEN SyncBridgeResult(u, out)
                   ELSE CoroutineReturned]

\* smartsync wrapper, lines 119-145: method(self, *args) is called first
\* (line 122), before the cell is read
SyncWrapperCall(u, cached, has_loop, binds, out) ==
    LET cd == SyncContextDetection(cached, has_loop)
    IN IF ~binds
       THEN [cell |-> cached, result |-> Raise(BindError)]
       ELSE [cell |-> IF cd.write THEN cd.value ELSE cached,
             result |-> IF cd.async_context THEN CoroutineReturned
                        ELSE SyncRunResult(u, out)]

\* a class with two `async def` methods, decorated both ways
PairInit ==
    /\ is_coro = [u \in Units |-> TRUE]
    /\ cached_has_loop = [u \in Units |-> FALSE]
    /\ running_loop = [t \in Threads |-> FALSE]
    /\ stack = [t \in Threads |-> <<>>]
    /\ handles = [s \in Slots |-> NoHandle]
    /\ obs = NoObs
    /\ last_unscheduled = "none"
    /\ after_reset = [u \in Units |-> "none"]
    /\ sync_mode = [i \in Instances |-> FALSE]
    /\ sync_cached_has_loop = [u \in Units |-> FALSE]

\* one call of unit u on thread t made on both wrappers, with arguments that
\* fit the signature (binds) or do not
PairCall(t, u, binds) ==
    /\ is_coro[u]
    /\ \E out \in Outcomes :
          LET a == AsyncWrapperCall(u, cached_has_loop[u], running_loop[t], binds, out)
              b == SyncWrapperCall(u, sync_cached_has_loop[u], running_loop[t], binds, out)
          IN /\ cached_has_loop' = [cached_has_loop EXCEPT ![u] = a.cell]
             /\ sync_cached_has_loop' = [sync_cached_has_loop EXCEPT ![u] = b.cell]
             /\ obs' = [kind |-> "pair", unit |-> u, thread |-> t,
                        had_loop |-> running_loop[t], binds |-> binds,
                        body |-> IF binds THEN out ELSE NoOutcome,
                        smartasync |-> a.result, smartsync |-> b.result]
    /\ UNCHANGED <<sync_mode, is_coro, running_loop, stack, handles, last_unscheduled,
                   after_reset>>

\* _smartasync_reset_cache() and _smartsync_reset_cache() of the unit
PairReset(u) ==
    /\ is_coro[u]
    /\ cached_has_loop' = [cached_has_loop EXCEPT ![u] = FALSE]
    /\ sync_cached_has_loop' = [sync_cached_has_loop EXCEPT ![u] = FALSE]
    /\ obs' = [NoObs EXCEPT !.kind = "reset", !.unit = u]
    /\ UNCHANGED <<sync_mode, is_coro, running_loop, stack, handles, last_unscheduled,
                   after_reset>>

PairNext ==
    \/ \E t \in Threads, u \in Units, binds \in BOOLEAN : PairCall(t, u, binds)
    \/ \E u \in Units : PairReset(u)
    \/ \E t \in Threads : StartLoop(t)
    \/ \E t \in Threads : StopLoop(t)

PairSpec == PairInit /\ [][PairNext]_vars

----------------------------------------------------------------------------
(* Properties *)

IsCall == obs.kind = "call"

IsResolve == obs.kind = "resolve"

\* the step is taken by thread t inside _wrapper, and the activation taking it
StepOf(t) == stack'[t] # stack[t]

ActingFrame(t) ==
    IF Len(stack'[t]) > Len(stack[t])
    THEN stack'[t][Len(stack'[t])]
    ELSE stack[t][Len(stack[t])]

CallStep(t, u) ==
    /\ Len(stack'[t]) = Len(stack[t]) + 1
    /\ stack'[t][Len(stack'[t])].unit = u

\* the four-row table of the specification, written out independently
TableStrategy(context, kind) ==
    IF context = "Unscheduled"
    THEN (IF kind = "Suspendable" THEN "SyncBridge" ELSE "Direct")
    ELSE (IF kind = "Suspendable" THEN "PassThrough" ELSE "ThreadOffload")

ContextOf(e) == IF e.async_context THEN "Scheduled" ELSE "Unscheduled"

KindOf(e) == IF e.async_method THEN "Suspendable" ELSE "Blocking"

ReturnsHandle(e) ==
    /\ e.result.type = "handle"
    /\ e.body = NoOutcome
    /\ e.ran_on = "none"
    /\ handles[e.result.handle].state = "pending"
    /\ handles[e.result.handle].unit = e.unit
    /\ handles[e.result.handle].kind = e.strategy

RanOnCaller(e) ==
    /\ e.result.type \in {"value", "raise"}
    /\ e.body \in Outcomes
    /\ e.ran_on = e.thread

\* C1: every completed call used the one strategy that the table gives for
\* its (resulting context, unit kind), and behaved as that row says:
\* SyncBridge and Direct ran the unit on the calling thread and returned no
\* handle (Direct returning exactly what the callable produced), PassThrough
\* and ThreadOffload returned a pending handle without running the unit.
C1_StrategyTable ==
    IsCall =>
        /\ obs.strategy = TableStrategy(ContextOf(obs), KindOf(obs))
        /\ obs.strategy = "SyncBridge" => RanOnCaller(obs)
        /\ obs.strategy = "Direct" => RanOnCaller(obs) /\ obs.result = obs.body
        /\ obs.strategy = "PassThrough" => ReturnsHandle(obs)
        /\ obs.strategy = "ThreadOffload" => ReturnsHandle(obs)

\* one thread completes the SyncBridge row while another is about to take
\* the ThreadOffload row
C1_Witness ==
    /\ IsCall /\ obs.strategy = "SyncBridge" /\ obs.result = Return("v")
    /\ \E t \in Threads :
          /\ stack[t] # <<>> /\ Top(t).pc = "dispatch"
          /\ Top(t).async_context /\ ~is_coro[Top(t).unit]

C2_Step ==
    \A u \in Units :
        /\ (cached_has_loop[u] /\ ~cached_has_loop'[u])
              => (obs'.kind = "reset" /\ obs'.unit = u)
        /\ \A t \in Threads :
              (stack[t] # <<>> /\ StepOf(t) /\ Top(t).pc = "mark"
                 /\ Top(t).unit = u) => cached_has_loop'[u]

\* C2: the cache flag starts false; a step that takes it from true to false
\* is a reset_cache() of that unit; the write a dispatch makes (line 54)
\* always leaves it true.
C2_OneWayLatch ==
    (\A u \in Units : ~cached_has_loop[u]) /\ [][C2_Step]_vars

\* a call dispatched from the latched flag completes and the flag is still set
C2_Witness ==
    IsCall /\ obs.cached /\ cached_has_loop[obs.unit]

C3_Event ==
    (IsCall /\ obs.async_method /\ ~obs.cached /\ ~obs.had_loop) =>
        /\ obs.strategy = "SyncBridge"
        /\ obs.probed /\ ~obs.async_context
        /\ RanOnCaller(obs)
        /\ obs.body.type = "value" => obs.result = obs.body

C3_Step ==
    \A t \in Threads :
        (StepOf(t) /\ is_coro[ActingFrame(t).unit] /\ ~ActingFrame(t).cached
           /\ ~ActingFrame(t).had_loop)
        => /\ cached_has_loop' = cached_has_loop
           /\ ActingFrame(t).pc # "mark"

\* C3: a call of a coroutine function that reads the flag as false on a
\* thread without a running loop is run by asyncio.run on that thread and
\* returns the value the coroutine produced, never a handle; no step of such
\* a call writes the flag, so repeating it gives the same.
C3_SyncBridgeFromUnscheduled ==
    []C3_Event /\ [][C3_Step]_vars

\* such a call returned the value and left the flag false while another
\* thread is inside its own asyncio.run of the same unit
C3_Witness ==
    /\ IsCall /\ obs.unit = "fetch" /\ ~obs.cached /\ ~obs.had_loop
    /\ obs.result = Return("v")
    /\ ~cached_has_loop["fetch"]
    /\ \E t \in Threads : stack[t] # <<>> /\ Top(t).unit = "fetch"
                          /\ Top(t).pc = "run" /\ t # obs.thread

\* C4: a call of a coroutine function on a thread with a running loop returns
\* a pending coroutine handle and has not run the unit; the unit's outcome is
\* produced only by an await on the owner's running loop.
C4_PassThroughReturnsHandle ==
    /\ (IsCall /\ obs.async_method /\ obs.had_loop) =>
           (obs.strategy = "PassThrough" /\ ReturnsHandle(obs))
    /\ (IsResolve /\ obs.strategy = "PassThrough") =>
           (running_loop[obs.thread] /\ obs.ran_on = obs.thread)

C4_Witness ==
    /\ IsCall /\ obs.async_method /\ obs.had_loop
    /\ obs.result.type = "handle"
    /\ stack[obs.thread] = <<>>

\* C5: a call of a plain function on a thread with a running loop returns a
\* pending to_thread handle and has not run the callable; whenever such a
\* handle resolves, the callable ran on a worker thread, not on the thread
\* of the caller's loop.
C5_OffloadNeverOnLoopThread ==
    /\ (IsCall /\ ~obs.async_method /\ obs.had_loop) =>
           (obs.strategy = "ThreadOffload" /\ ReturnsHandle(obs))
    /\ (IsResolve /\ ~obs.async_method) =>
           (obs.strategy = "ThreadOffload" /\ obs.ran_on = Worker
              /\ obs.ran_on # obs.thread)
    /\ (IsCall /\ ~obs.async_method /\ obs.ran_on = obs.thread) => ~obs.had_loop

\* the offloaded callable has run on the worker while the caller's loop is
\* still running
C5_Witness ==
    /\ IsResolve /\ ~obs.async_method /\ obs.ran_on = Worker
    /\ running_loop[obs.thread]

C6_Event ==
    /\ (IsCall /\ obs.cached) =>
          (~obs.probed /\ obs.async_context /\ ReturnsHandle(obs))
    /\ (IsCall /\ ~obs.cached) =>
          (obs.probed /\ obs.async_context = obs.had_loop)
    /\ (IsCall /\ ~obs.cached /\ ~obs.had_loop /\ obs.async_method) =>
          (obs.strategy = "SyncBridge" /\ RanOnCaller(obs))
    /\ obs.kind = "reset" => ~cached_has_loop[obs.unit]

C6_CachedStep ==
    \A t \in Threads, u \in Units :
        (CallStep(t, u) /\ cached_has_loop[u])
        => (ActingFrame(t).cached /\ ~ActingFrame(t).probed
              /\ ActingFrame(t).async_context)

C6_ProbesLive(t) ==
    /\ ~ActingFrame(t).cached
    /\ ActingFrame(t).probed
    /\ ActingFrame(t).async_context = running_loop[t]

\* C6 as stated: a call that finds the flag true skips the probe and is
\* dispatched as Scheduled; reset_cache() clears the flag; the first call
\* that starts after a reset_cache() probes and is dispatched on the live
\* probe result.
C6_FirstCallAfterResetProbes ==
    /\ []C6_Event
    /\ [][C6_CachedStep]_vars
    /\ [][\A t \in Threads, u \in Units :
            (CallStep(t, u) /\ after_reset[u] # "none") => C6_ProbesLive(t)]_vars

\* C6 amended: as above, but the first call after a reset_cache() is only
\* claimed to probe when no dispatch that was past its probe at the time of
\* the reset has executed line 54 since.
C6_ProbeSkippedUntilReset ==
    /\ []C6_Event
    /\ [][C6_CachedStep]_vars
    /\ [][\A t \in Threads, u \in Units :
            (CallStep(t, u) /\ after_reset[u] = "clean") => C6_ProbesLive(t)]_vars

\* a thread that still holds the handle of its earlier scheduled call of "add"
\* (the flag was true then) calls "add" again without a loop, reads the flag
\* as false, which only a reset in between explains, probes and gets the value
C6_Witness ==
    /\ IsCall /\ obs.unit = "add" /\ ~obs.cached /\ obs.probed
    /\ ~obs.had_loop /\ obs.result = Return("v")
    /\ \E s \in Slots :
          /\ handles[s].unit = "add" /\ handles[s].state = "pending"
          /\ handles[s].owner = obs.thread

C7_Step ==
    \A t \in Threads :
        (StepOf(t) /\ ActingFrame(t).probed /\ ~ActingFrame(t).async_context)
        => cached_has_loop' = cached_has_loop

\* C7: no step of a dispatch whose probe found no running loop changes the
\* flag of any unit, and every call that read the flag as false has probed.
C7_UnscheduledProbeWritesNothing ==
    /\ [](IsCall /\ ~obs.cached => obs.probed)
    /\ [][C7_Step]_vars

\* an unscheduled call (it probed, found no loop) has completed and the flag
\* of its unit is false as it was
C7_Witness ==
    /\ IsCall /\ obs.probed /\ ~obs.async_context /\ ~obs.cached
    /\ ~cached_has_loop[obs.unit]
    /\ obs.strategy = "Direct"

\* C8: a call that reads the flag as true on a thread that has no running
\* loop gets a pending handle; the unit is neither run to completion nor
\* called.
C8_StaleScheduledReturnsHandle ==
    (IsCall /\ obs.cached /\ ~obs.had_loop) =>
        /\ ReturnsHandle(obs)
        /\ obs.strategy = (IF obs.async_method THEN "PassThrough" ELSE "ThreadOffload")
        /\ ~obs.probed

C8_Witness ==
    /\ IsCall /\ obs.cached /\ ~obs.had_loop /\ obs.result.type = "handle"
    /\ after_reset[obs.unit] = "none"
    /\ ~running_loop[obs.thread]

\* C9: a call on a thread with a running loop is dispatched as Scheduled and
\* returns a handle, whatever was observed before; a handle resolves to
\* exactly what the unit produced.
C9_SyncThenAsync ==
    /\ (IsCall /\ obs.had_loop) =>
          (obs.async_context /\ ReturnsHandle(obs))
    /\ (IsResolve /\ obs.body.type = "value") => obs.result = obs.body

\* the first scheduled call (it still finds the flag false) of a unit whose
\* call from unscheduled context was the last call to complete before it
C9_Witness ==
    /\ IsCall /\ obs.had_loop /\ ~obs.cached /\ obs.probed
    /\ obs.prior = obs.unit
    /\ obs.result.type = "handle"

\* C10: whatever failure the unit raised is what the caller receives, on the
\* asyncio.run path, on the to_thread path and on the others.
C10_FailureUnchanged ==
    ((IsCall \/ IsResolve) /\ obs.body.type = "raise") => obs.result = obs.body

\* the wrapper's own error (lines 71-74) is what the caller received
WrapperRaised(e) == e.result.type = "raise" /\ e.result.exc.by = "wrapper"

\* C11: a call whose asyncio.run was refused because the thread has a running
\* loop fails with the wrapper's "Cannot call <unit>() synchronously ... Use
\* 'await <unit>()' instead." error; and the wrapper raises an error of its
\* own only then: whenever the caller received the wrapper's error, the strategy
\* was SyncBridge and asyncio.run had refused to start, so the unit never ran.
C11_ConflictOnlyWhenRunRefused ==
    /\ (IsCall /\ obs.strategy = "SyncBridge" /\ obs.body = NoOutcome) =>
          /\ WrapperRaised(obs)
          /\ obs.result.exc.msg[2] = obs.unit
          /\ obs.result.exc.msg[4] = obs.unit
    /\ ((IsCall \/ IsResolve) /\ WrapperRaised(obs)) =>
          /\ obs.strategy = "SyncBridge"
          /\ obs.body = NoOutcome
          /\ obs.ran_on = "none"

SyncBridgeEnded == IsCall /\ obs.strategy = "SyncBridge" /\ obs.body \in Outcomes

C13_NextCallProbes(t) ==
    /\ ~ActingFrame(t).cached
    /\ ActingFrame(t).probed
    /\ ~ActingFrame(t).had_loop
    /\ ~ActingFrame(t).async_context

\* C13 as stated: when asyncio.run(coro) has ended, by value or by failure,
\* the calling thread has no running loop, the flag of the unit is false, and
\* the next call of the unit from that thread probes and finds no loop.
C13_TornDownCacheFalse ==
    /\ [](SyncBridgeEnded =>
            (~running_loop[obs.thread] /\ ~cached_has_loop[obs.unit]))
    /\ [][\A t \in Threads, u \in Units :
            (SyncBridgeEnded /\ obs.thread = t /\ obs.unit = u /\ CallStep(t, u))
            => C13_NextCallProbes(t)]_vars

C13_RunWritesNothing ==
    \A t \in Threads :
        (StepOf(t) /\ is_coro[ActingFrame(t).unit] /\ ~ActingFrame(t).async_context)
        => cached_has_loop' = cached_has_loop

C13_OnlyScheduledLatches ==
    \A u \in Units :
        (~cached_has_loop[u] /\ cached_has_loop'[u]) =>
            \E t \in Threads :
                /\ stack[t] # <<>> /\ StepOf(t)
                /\ Top(t).unit = u /\ Top(t).pc = "mark"
                /\ Top(t).had_loop /\ Top(t).async_context

\* C13 amended: when asyncio.run(coro) has ended, by value or by failure, the
\* calling thread has no running loop and is outside every wrapped call; no
\* step of the call that used asyncio.run writes a flag, and a flag goes from
\* false to true only by line 54 of a call that found a running loop (a
\* call made from the driven body, or one on another thread); if the flag of
\* the unit is false when the thread calls it next, that call probes and
\* finds no loop.
C13_TornDownAfterRun ==
    /\ [](SyncBridgeEnded =>
            (~running_loop[obs.thread] /\ stack[obs.thread] = <<>>))
    /\ [][C13_RunWritesNothing]_vars
    /\ [][C13_OnlyScheduledLatches]_vars
    /\ [][\A t \in Threads, u \in Units :
            (SyncBridgeEnded /\ obs.thread = t /\ obs.unit = u /\ CallStep(t, u)
               /\ ~cached_has_loop[u])
            => C13_NextCallProbes(t)]_vars

\* asyncio.run has ended by the unit's failure: the loop is gone, the thread
\* is back in plain code and the flag of the unit is false
C13_Witness ==
    /\ SyncBridgeEnded /\ obs.body.type = "raise"
    /\ ~running_loop[obs.thread] /\ ~cached_has_loop[obs.unit]
    /\ stack[obs.thread] = <<>>

C16_Frame(t, fr) ==
    /\ fr.cached => (~fr.probed /\ fr.async_context)
    /\ ~fr.cached => (fr.probed /\ fr.async_context = fr.had_loop)
    /\ fr.pc # "run" => fr.had_loop = running_loop[t]
    /\ fr.pc = "mark" => (fr.store /\ fr.probed /\ fr.had_loop)

\* C16: with threads interleaving on the unlocked cell, a call that read it
\* as true makes no probe and is dispatched with async_context = True; a call
\* that read it as false has probed, even when another thread has set the
\* cell since, and is dispatched by the result of its own probe, which is
\* still the state of its thread, whatever the cell holds by then; the only
\* value a call ever writes is True, after a probe that found a loop.
C16_RaceOnlySkipsOrRepeatsProbe ==
    /\ \A t \in Threads : \A k \in 1..Len(stack[t]) : C16_Frame(t, stack[t][k])
    /\ IsCall =>
          /\ obs.cached => (~obs.probed /\ obs.async_context)
          /\ ~obs.cached => (obs.probed /\ obs.async_context = obs.had_loop)
          /\ obs.strategy = Strategy(obs.async_context, obs.async_method)
          /\ obs.strategy \in {"SyncBridge", "Direct"} <=> RanOnCaller(obs)

\* a call that read the cell as false and found no loop has run the unit on
\* its thread although another thread has latched the cell in the meantime
C16_Witness ==
    /\ IsCall /\ ~obs.cached /\ ~obs.had_loop /\ obs.strategy = "Direct"
    /\ obs.result = Return("v")
    /\ cached_has_loop[obs.unit]
    /\ after_reset[obs.unit] = "none"

\* C17: no call executes the body of its unit more than once.  A call
\* dispatched with async_context = False (direct call, asyncio.run) has
\* executed it exactly once when it returns or raises; a call dispatched with
\* async_context = True has not executed it when it returns the awaitable, and
\* the body is executed exactly once when that awaitable is driven, after which
\* the awaitable is spent; a rejected submission executes nothing.  In
\* particular an outcome that is a failure comes from the one execution.
C17_BodyRunsAtMostOnce ==
    /\ \A t \in Threads : \A k \in 1..Len(stack[t]) :
          stack[t][k].runs = (IF stack[t][k].pc = "run" THEN 1 ELSE 0)
    /\ obs.runs <= 1
    /\ (IsCall /\ ~obs.async_context) => (obs.runs = 1 /\ obs.body \in Outcomes)
    /\ (IsCall /\ obs.async_context) => (obs.runs = 0 /\ ReturnsHandle(obs))
    /\ IsResolve =>
          (obs.runs = 1 /\ obs.body \in Outcomes /\ handles[obs.slot] = NoHandle)
    /\ obs.kind = "rejected" => (obs.runs = 0 /\ obs.body = NoOutcome)
    /\ obs.body.type = "raise" => obs.runs = 1

\* a plain function called without a loop raised: it was called once
C17_Witness ==
    /\ IsCall /\ obs.strategy = "Direct" /\ obs.body.type = "raise"
    /\ obs.result = obs.body /\ obs.runs = 1

\* the activations of a thread above the first one: calls made by the body
\* of a unit that asyncio.run is driving
C20_Nested(t) == {k \in 1..Len(stack[t]) : k > 1}

C20_State ==
    /\ \A t \in Threads : \A k \in C20_Nested(t) :
          /\ stack[t][1].pc = "run" /\ ~stack[t][1].had_loop
          /\ running_loop[t]
          /\ stack[t][k].had_loop /\ stack[t][k].async_context
          /\ stack[t][k].pc \in {"mark", "dispatch"}
          /\ stack[t][k].pc = "mark" => stack[t][k].store
    /\ (IsCall /\ obs.cached /\ ~obs.had_loop) =>
          (ReturnsHandle(obs) /\ obs.runs = 0 /\ obs.result.type # "value")

C20_Step ==
    /\ \A t \in Threads :
          (Len(stack[t]) > 1 /\ StepOf(t) /\ Top(t).pc = "mark")
             => cached_has_loop'[Top(t).unit]
    /\ (obs'.kind = "call" /\ obs'.strategy = "SyncBridge")
          => cached_has_loop' = cached_has_loop
    /\ \A t \in Threads, u \in Units :
          (CallStep(t, u) /\ cached_has_loop[u] /\ ~running_loop[t])
             => (ActingFrame(t).cached /\ ~ActingFrame(t).probed
                   /\ ActingFrame(t).async_context)

\* C20: a call made by the body of a unit that asyncio.run is driving finds
\* the loop of asyncio.run: it is dispatched with async_context = True, and
\* if it read the cell as false it writes True at line 54; the end of
\* asyncio.run changes no cell; and a call that finds the cell true on a
\* thread without a loop skips the probe and gets an awaitable, not the value.
C20_PrivateLoopLatches ==
    []C20_State /\ [][C20_Step]_vars

\* the body of "fetch", driven by asyncio.run on a thread that had no loop,
\* has called "add": the call read the cell as false, found the loop of
\* asyncio.run, has written the cell and is about to hand out an awaitable
C20_Witness ==
    \E t \in Threads :
        /\ Len(stack[t]) = 2
        /\ stack[t][1].unit = "fetch" /\ stack[t][1].pc = "run"
        /\ ~stack[t][1].had_loop
        /\ stack[t][2].unit = "add" /\ stack[t][2].pc = "dispatch"
        /\ ~stack[t][2].cached /\ stack[t][2].probed
        /\ cached_has_loop["add"]
        /\ \A o \in Threads \ {t} : stack[o] = <<>> /\ ~running_loop[o]

\* thread t executes line 54 for unit u in this step
C21_MarkStep(t, u) ==
    /\ stack[t] # <<>> /\ StepOf(t)
    /\ Top(t).pc = "mark" /\ Top(t).unit = u

C21_Step ==
    \A u \in Units :
        /\ (cached_has_loop[u] /\ ~cached_has_loop'[u]) =>
              (obs'.kind = "reset" /\ obs'.unit = u)
        /\ (~cached_has_loop[u] /\ cached_has_loop'[u]) =>
              \E t \in Threads :
                  C21_MarkStep(t, u) /\ Top(t).probed /\ Top(t).had_loop
        /\ \A t \in Threads :
              /\ C21_MarkStep(t, u) => cached_has_loop'[u]
              /\ (CallStep(t, u) /\ ActingFrame(t).probed /\ ActingFrame(t).had_loop)
                    => ActingFrame(t).pc = "mark"

\* a call that probed and found a loop is either still before line 54 or has
\* executed it; a call that did not find one never gets to line 54
C21_State ==
    \A t \in Threads : \A k \in 1..Len(stack[t]) :
        /\ stack[t][k].pc = "mark" =>
              (stack[t][k].probed /\ stack[t][k].had_loop /\ stack[t][k].store)
        /\ (stack[t][k].probed /\ stack[t][k].had_loop) =>
              stack[t][k].pc \in {"mark", "dispatch"}

\* C21: whatever the interleaving of the threads, every call whose probe
\* found a loop executes line 54 before it is dispatched and that step leaves
\* the cell true; the cell becomes true by no other step and becomes false
\* only by reset_cache().  Hence without reset_cache() the cell, once all
\* calls have finished, is true exactly if one of them found a loop; with
\* reset_cache() a call that probed before it can still set the cell after it.
C21_NoLostMark ==
    []C21_State /\ [][C21_Step]_vars

\* reset_cache() of a unit has run, no call of the unit has started since and
\* no thread is inside the wrapper, and yet the cell is true: a call that had
\* probed before the reset executed line 54 after it
C21_Witness ==
    \E u \in Units :
        /\ after_reset[u] = "marked" /\ cached_has_loop[u]
        /\ \A t \in Threads : stack[t] = <<>>

\* the two rows of the dispatch table of a unit of the given kind
C23_Rows(async_method) == {Strategy(c, async_method) : c \in BOOLEAN}

C23_State ==
    /\ \A u \in Units : is_coro[u] = IsCoroutineFunction(u)
    /\ obs.kind \in {"call", "resolve", "rejected"} =>
          obs.strategy \in C23_Rows(IsCoroutineFunction(obs.unit))
    /\ \A s \in Slots : handles[s].state # "free" =>
          handles[s].kind \in C23_Rows(IsCoroutineFunction(handles[s].unit))
    /\ \A t \in Threads : \A k \in 1..Len(stack[t]) :
          stack[t][k].pc = "run" => IsCoroutineFunction(stack[t][k].unit)

\* C23: the kind of a unit is the value computed when it was wrapped (line
\* 36) in every state, no step changes it, and every dispatch of the unit
\* (the arm a call took, the awaitable it handed out, a run in progress)
\* is one of the two rows of that kind.
C23_KindFixedAtWrap == []C23_State /\ [][is_coro' = is_coro]_vars

\* a Blocking unit that was offloaded from a loop (the awaitable is still
\* there), then reset (its cell is false again), then called without a loop:
\* it ran directly and its body failed
C23_Witness ==
    /\ obs.kind = "call" /\ obs.unit = "add" /\ obs.strategy = "Direct"
    /\ obs.result.type = "raise"
    /\ ~cached_has_loop["add"]
    /\ \E s \in Slots : /\ handles[s].state # "free"
                        /\ handles[s].unit = "add"
                        /\ handles[s].kind = "ThreadOffload"

----------------------------------------------------------------------------
(* Properties of smartsync (SyncSpec) *)

\* C14: for an object of a class derived from SmartSync, _sync_mode selects
\* what a call of a decorated coroutine method does: with _sync = True the
\* coroutine is run to completion and the caller gets its outcome without
\* awaiting, with _sync = False the caller gets a coroutine to await.
C14_SyncModeSelects ==
    (IsCall /\ obs.async_method) =>
        IF obs.sync_mode
        THEN obs.strategy = "SyncBridge" /\ RanOnCaller(obs) /\ obs.runs = 1
        ELSE obs.strategy = "PassThrough" /\ ReturnsHandle(obs)

C15_Event ==
    /\ (IsCall /\ ~obs.async_method) =>
          /\ obs.strategy = "Direct"
          /\ RanOnCaller(obs)
          /\ obs.result = obs.body
          /\ obs.result.type # "handle"
          /\ obs.runs = 1
          /\ ~obs.cached /\ ~obs.probed
    /\ \A u \in Units : ~is_coro[u] => ~sync_cached_has_loop[u]
    /\ \A s \in Slots : handles[s].state # "free" => is_coro[handles[s].unit]

C15_Step ==
    (obs'.kind = "call" /\ ~obs'.async_method) =>
        /\ sync_cached_has_loop' = sync_cached_has_loop
        /\ handles' = handles
        /\ running_loop' = running_loop

\* C15: a plain method decorated with smartsync, called without await on a
\* thread with or without a running loop, runs on the calling thread and the
\* caller gets what it returned or raised, never an awaitable; the call reads
\* and writes no cache cell (a plain method has none) and leaves the cells of
\* the other methods, the awaitables and the loops as they are.
C15_PlainMethodPassesThrough ==
    []C15_Event /\ [][C15_Step]_vars

\* the plain method returned its value to a caller running inside a loop,
\* while the coroutine method of the class has its cell latched
C15_Witness ==
    /\ IsCall /\ obs.unit = "add" /\ obs.had_loop
    /\ obs.result = Return("v")
    /\ running_loop[obs.thread]
    /\ sync_cached_has_loop["fetch"]

\* a write of the cell of u is line 131 of a call of u or reset_cache() of u
C19_OwnCellOnly ==
    \A u \in Units :
        (sync_cached_has_loop'[u] # sync_cached_has_loop[u]) =>
            \/ obs'.kind = "reset" /\ obs'.unit = u
            \/ \E t \in Threads :
                  /\ stack[t] # <<>> /\ StepOf(t)
                  /\ Top(t).pc = "mark" /\ Top(t).unit = u

\* a call of u, through any object and on any thread, reads the cell of u
C19_OneCellPerUnit ==
    \A t \in Threads, u \in Units :
        CallStep(t, u) =>
            /\ ActingFrame(t).cached = sync_cached_has_loop[u]
            /\ ActingFrame(t).cached => (~ActingFrame(t).probed /\ ActingFrame(t).async_context)

\* C19: the cell belongs to the decorated method and to nothing else.  A step
\* that changes the cell of one method is line 131 of a call of that method
\* or its reset_cache(); every call of a method, through whichever object and
\* on whichever thread, reads that one cell, so once it is true a call through
\* any object gets the coroutine back.
C19_CacheKeyedByUnitOnly ==
    /\ [][C19_OwnCellOnly]_vars
    /\ [][C19_OneCellPerUnit]_vars
    /\ []((IsCall /\ obs.async_method /\ obs.cached) =>
             (obs.strategy = "PassThrough" /\ ReturnsHandle(obs)))

\* a call through obj2 on a thread without a loop found the cell true and got
\* a coroutine back, while the call through obj1 that wrote the cell on the
\* other thread is about to return; the cell of the other coroutine method of
\* the class is still false
C19_Witness ==
    /\ IsCall /\ obs.inst = "obj2" /\ obs.cached /\ ~obs.had_loop
    /\ obs.result.type = "handle"
    /\ \E t \in Threads :
          /\ t # obs.thread /\ stack[t] # <<>>
          /\ Top(t).unit = obs.unit /\ Top(t).inst = "obj1"
          /\ Top(t).pc = "return" /\ ~Top(t).cached /\ Top(t).had_loop
    /\ \E u \in Units : u # obs.unit /\ is_coro[u] /\ ~sync_cached_has_loop[u]

----------------------------------------------------------------------------
(* Progress.  A thread inside _wrapper executes its next step               *)
(* (WrapperStep); the private loop of asyncio.run drives a unit that         *)
(* terminates to its end (RunFinish); the executor runs what was submitted   *)
(* to it, and an awaitable nobody awaits is discarded (HandleStep).          *)

\* the steps of _wrapper between the probe and the return of an awaitable
WrapperStep(t) == Mark(t) \/ DispatchPassThrough(t) \/ DispatchOffload(t)

HandleStep(s) == WorkerRun(s) \/ Drop(s)

Fairness ==
    /\ \A t \in Threads : SF_vars(WrapperStep(t)) /\ SF_vars(RunFinish(t))
    /\ \A s \in Slots : WF_vars(HandleStep(s))

FairSpec == Init /\ [][Next]_vars /\ Fairness

\* the thread is inside asyncio.run(coro) of line 68
InRun(t) == stack[t] # <<>> /\ stack[t][1].pc = "run"

C18_Returned(t) ==
    /\ IsCall /\ obs.thread = t /\ obs.strategy = "SyncBridge"
    /\ obs.body \in Outcomes /\ obs.runs = 1
    /\ stack[t] = <<>>

C18_Safe ==
    /\ (IsCall /\ obs.strategy = "SyncBridge") =>
          /\ obs.body \in Outcomes /\ obs.runs = 1 /\ obs.ran_on = obs.thread
          /\ obs.result.type \in {"value", "raise"}
          /\ obs.body.type = "value" => obs.result = obs.body
    /\ \A t \in Threads : InRun(t) => running_loop[t]
    /\ (IsCall /\ obs.strategy = "ThreadOffload") =>
          /\ ReturnsHandle(obs) /\ obs.runs = 0
          /\ AtCallSite(obs.thread)
    /\ (IsResolve /\ obs.strategy = "ThreadOffload") => obs.ran_on = Worker

C18_Live ==
    /\ \A t \in Threads : InRun(t) ~> C18_Returned(t)
    /\ \A s \in Slots :
          (handles[s].state = "submitted") ~>
              (IsResolve /\ obs.slot = s /\ obs.ran_on = Worker)

\* C18: a call that uses asyncio.run returns or raises only when the unit
\* has run to its end on the private loop, and a thread that is inside
\* asyncio.run eventually gets back the value or a failure; a call that uses
\* asyncio.to_thread gives the awaitable back at once, without running the
\* callable and leaving the caller free to go on, and a submitted callable is
\* eventually run by a worker and its awaitable resolved.
C18_BridgeReturnsOffloadResolves ==
    []C18_Safe /\ C18_Live

\* asyncio.run has returned on one thread while a callable submitted by the
\* other thread is waiting for a worker
C18_Witness ==
    /\ \E t \in Threads : C18_Returned(t)
    /\ \E s \in Slots : handles[s].state = "submitted"

----------------------------------------------------------------------------
(* Properties of the two implementations side by side (PairSpec) *)

C22_CellsEqual == \A u \in Units : cached_has_loop[u] = sync_cached_has_loop[u]

C22_Step ==
    C22_CellsEqual =>
        /\ obs'.kind = "pair" => obs'.smartasync = obs'.smartsync
        /\ ~C22_CellsEqual' =>
              /\ obs'.kind = "pair" /\ ~obs'.binds /\ obs'.had_loop
              /\ cached_has_loop'[obs'.unit] /\ ~sync_cached_has_loop'[obs'.unit]
              /\ ~cached_has_loop[obs'.unit]

====
